---- MODULE Spec2Model ----
(***************************************************************************)
(* Model of format_ruby_movie.py: merge_parenthetical_lines, plain_text    *)
(* and format_script (classifier loop and serializer).                     *)
(*                                                                         *)
(* A string is a sequence of characters.  The module is ASCII, so every    *)
(* CJK character is written by a romanised one-character name ("wai" is    *)
(* U+5916, "F(" is the full-width opening bracket U+FF08, "F:" the         *)
(* full-width colon U+FF1A).  The Latin words Admin and LIKEDISLIKE and    *)
(* the command \ruby are single elements.  An optional value (None or a    *)
(* string) is <<>> or <<s>>.                                               *)
(***************************************************************************)
EXTENDS Integers, Sequences, FiniteSets

VARIABLES lines, i, paren_buf, merged, buf_from, merged_from,
          j, blocks, last_dialogue, prev_blank, plain, out, pc,
          argv_len, rc, reads, writes, usage

vars == <<lines, i, paren_buf, merged, buf_from, merged_from,
          j, blocks, last_dialogue, prev_blank, plain, out, pc,
          argv_len, rc, reads, writes, usage>>

(* ------------------------------ characters ----------------------------- *)

FOPEN == "F("
FCLOSE == "F)"
FCOLON == "F:"
HOPEN == "("
HCLOSE == ")"
HCOLON == ":"
NL == "\n"
RUBY == "\\ruby"

\* str.strip() with no argument removes whitespace, newlines included
Whitespace == {" ", NL}

None == <<>>

Some(s) == <<s>>

(* --------------------------- string primitives ------------------------- *)

startswith(s, p) ==
  /\ Len(p) <= Len(s)
  /\ SubSeq(s, 1, Len(p)) = p

endswith(s, p) ==
  /\ Len(p) <= Len(s)
  /\ SubSeq(s, Len(s) - Len(p) + 1, Len(s)) = p

Contains(s, p) ==
  \E k \in 1..(Len(s) - Len(p) + 1) : SubSeq(s, k, k + Len(p) - 1) = p

RECURSIVE lstrip(_)
lstrip(s) ==
  IF s # <<>> /\ s[1] \in Whitespace THEN lstrip(Tail(s)) ELSE s

RECURSIVE rstrip(_)
rstrip(s) ==
  IF s # <<>> /\ s[Len(s)] \in Whitespace
  THEN rstrip(SubSeq(s, 1, Len(s) - 1))
  ELSE s

strip(s) == lstrip(rstrip(s))

\* line.rstrip("\n")
RECURSIVE rstrip_nl(_)
rstrip_nl(s) ==
  IF s # <<>> /\ s[Len(s)] = NL
  THEN rstrip_nl(SubSeq(s, 1, Len(s) - 1))
  ELSE s

\* index of the first / last occurrence of character c in s, 0 if none
find(s, c) ==
  IF \E k \in 1..Len(s) : s[k] = c
  THEN CHOOSE k \in 1..Len(s) : s[k] = c /\ \A m \in 1..(k - 1) : s[m] # c
  ELSE 0

rfind(s, c) ==
  IF \E k \in 1..Len(s) : s[k] = c
  THEN CHOOSE k \in 1..Len(s) : s[k] = c /\ \A m \in (k + 1)..Len(s) : s[m] # c
  ELSE 0

(* ------------------------------ plain_text ----------------------------- *)

\* position of the first "}" at or after k, 0 if none
RECURSIVE NextClose(_, _)
NextClose(s, k) ==
  IF k > Len(s) THEN 0
  ELSE IF s[k] = "}" THEN k
  ELSE NextClose(s, k + 1)

\* end position of a match of RUBY_RE starting at k, as <<end of BASE group,
\* end of READING group>>, or <<0, 0>> when the pattern does not match at k
RubyMatch(s, k) ==
  IF k + 1 <= Len(s) /\ s[k] = RUBY /\ s[k + 1] = "{"
  THEN LET b == NextClose(s, k + 2)
       IN IF b # 0 /\ b + 1 <= Len(s) /\ s[b + 1] = "{"
          THEN LET r == NextClose(s, b + 2)
               IN IF r # 0 THEN <<b, r>> ELSE <<0, 0>>
          ELSE <<0, 0>>
  ELSE <<0, 0>>

\* RUBY_RE.sub(r"\1", s): leftmost non-overlapping matches, one pass
RECURSIVE RubySub(_, _)
RubySub(s, k) ==
  IF k > Len(s) THEN <<>>
  ELSE LET m == RubyMatch(s, k)
       IN IF m[2] # 0
          THEN SubSeq(s, k + 2, m[1] - 1) \o RubySub(s, m[2] + 1)
          ELSE <<s[k]>> \o RubySub(s, k + 1)

plain_text(s) == RubySub(s, 1)

(* ------------------------- SKIP_RE, STAGE_NAMES ------------------------ *)

\* the alternatives of SKIP_RE that may follow leading whitespace (\s*)
SkipPrefixes ==
  { <<"you", " ", "Admin">>,
    <<"Admin", " ", "zai">>,
    <<"wen", "zhang", "shu">>,
    <<"zhu", "ce", "ri", "qi">>,
    <<"LIKEDISLIKE">>,
    <<"hui", "fu", FCOLON>> }

\* SKIP_RE.search(p): the pattern is anchored at the start of the string;
\* Admin$ matches at the end of the string or before a final newline
SKIP_RE(p) ==
  \/ startswith(p, <<"zhou", "xing", "chi", "-">>)
  \/ LET q == lstrip(p)
     IN \/ \E pre \in SkipPrefixes : startswith(q, pre)
        \/ q = <<"Admin">>
        \/ q = <<"Admin", NL>>

PageMarker == <<"zuo", "le", "di">>

IsNoise(s) ==
  LET projected == plain_text(s)
  IN SKIP_RE(projected) \/ Contains(projected, PageMarker)

STAGE_NAMES == { <<"wai", "jing">>, <<"nei", "jing">>, <<"chang", "jing">> }

StartsWithOpen(s) == startswith(s, <<FOPEN>>) \/ startswith(s, <<HOPEN>>)

EndsWithClose(s) == endswith(s, <<FCLOSE>>) \/ endswith(s, <<HCLOSE>>)

(* -------------------------------- inputs ------------------------------- *)

MaxLines == 4

MaxWideLines == 2

\* len(sys.argv) ranges over 1..MaxArgv
MaxArgv == 4

\* one line of every class the classifier and the merger distinguish
CoreLines ==
  { <<>>,
    <<"jia", FCOLON, "a">>,
    <<"b">>,
    <<"Admin">>,
    <<"wai", "jing", FCOLON, "a">>,
    <<HOPEN, "c", HCLOSE>>,
    <<FOPEN, " ", "d">>,
    <<"e", " ", FCLOSE>> }

\* variants: whitespace, both bracket styles, notes, annotation spans,
\* half-width colon, brackets mixed with text and with colons, noise forms
WideLines ==
  CoreLines \cup
  { <<" ">>,
    <<" ", "b", " ">>,
    <<"jia", HOPEN, "n", HCLOSE, FCOLON, "a">>,
    <<"jia", " ", HOPEN, " ", "n", HCLOSE, " ", FCOLON, " ", "a">>,
    <<"jia", FOPEN, "n", FCLOSE, FCOLON, "a">>,
    <<"jia", HOPEN, HCLOSE, FCOLON, "a">>,
    <<"jia", FCOLON>>,
    <<"jia", FCOLON, "a", FCOLON, "b">>,
    <<RUBY, "{", "wai", "}", "{", "w", "}", "jing", FCOLON, "a">>,
    <<RUBY, "{", RUBY, "{", "a", "}", "{", "w", "}", "}", "{", "w", "}">>,
    <<RUBY, "{", "a", "}", "{", "w", "}", "b">>,
    <<"jia", HCOLON, "a">>,
    <<HOPEN, "c", HCLOSE, "b">>,
    <<HOPEN, "d">>,
    <<"e", HCLOSE>>,
    <<HOPEN, "jia", FCOLON, "a">>,
    <<"jia", FCOLON, "a", HCLOSE>>,
    <<"hui", "fu", FCOLON, "x">>,
    <<"x", "zuo", "le", "di">>,
    <<"you", " ", "Admin", HCLOSE>> }

SeqsUpTo(S, n) == UNION { [1..k -> S] : k \in 0..n }

(* -------------------------------- blocks ------------------------------- *)

\* {"type": "stage", "text": t}; src is the set of positions in merged of
\* the lines the block was built from (a history field, not in the code)
StageBlock(t, m) ==
  [type |-> "stage", text |-> t, char |-> <<>>, stage |-> None,
   lines |-> <<>>, src |-> {m}]

\* variant: an empty text after the colon is not stored as a line
DialogueBlock_DropsEmptyText(c, st, t, m) ==
  [type |-> "dialogue", text |-> <<>>, char |-> c, stage |-> st,
   lines |-> IF t = <<>> THEN <<>> ELSE <<t>>, src |-> {m}]

\* {"type": "dialogue", "char": c, "stage": st, "lines": [t]}
DialogueBlock(c, st, t, m) ==
  [type |-> "dialogue", text |-> <<>>, char |-> c, stage |-> st,
   lines |-> <<t>>, src |-> {m}]

(* ----------------------------- initial state --------------------------- *)

\* lines is the content of the input file, line by line; with a wrong
\* argument count no file is read and its content is immaterial.  rc is the
\* exit status, -1 while the program runs.
InitOf(pool, n) ==
  /\ argv_len \in 1..MaxArgv
  /\ lines \in IF argv_len = 3 THEN SeqsUpTo(pool, n) ELSE {<<>>}
  /\ rc = -1
  /\ reads = 0
  /\ writes = 0
  /\ usage = FALSE
  /\ plain = <<>>
  /\ i = 1
  /\ paren_buf = None
  /\ merged = <<>>
  /\ buf_from = {}
  /\ merged_from = <<>>
  /\ j = 1
  /\ blocks = <<>>
  /\ last_dialogue = 0
  /\ prev_blank = TRUE
  /\ out = <<>>
  /\ pc = "main"

Init == InitOf(CoreLines, MaxLines)

InitWide == InitOf(WideLines, MaxWideLines)

(* ----------------------- merge_parenthetical_lines --------------------- *)

main_vars == <<argv_len, rc, reads, writes, usage>>

classifier_vars == <<j, blocks, last_dialogue, prev_blank, plain, out>>

\* lines 34-39: the buffer is active
MergeBuffered ==
  /\ pc = "merge" /\ i <= Len(lines)
  /\ paren_buf # None
  /\ LET stripped == strip(rstrip_nl(lines[i]))
         buf == paren_buf[1] \o stripped
     IN IF EndsWithClose(buf)
        THEN /\ merged' = Append(merged, buf)
             /\ merged_from' = Append(merged_from, buf_from \cup {i})
             /\ paren_buf' = None
             /\ buf_from' = {}
        ELSE /\ paren_buf' = Some(buf)
             /\ buf_from' = buf_from \cup {i}
             /\ UNCHANGED <<merged, merged_from>>
  /\ i' = i + 1
  /\ UNCHANGED <<lines, pc>>
  /\ UNCHANGED classifier_vars
  /\ UNCHANGED main_vars

\* the condition of lines 40-42
OpensBuffer(stripped) == StartsWithOpen(stripped) /\ ~EndsWithClose(stripped)

\* lines 40-44: the line opens the buffer
MergeOpen ==
  /\ pc = "merge" /\ i <= Len(lines)
  /\ paren_buf = None
  /\ LET stripped == strip(rstrip_nl(lines[i]))
     IN /\ OpensBuffer(stripped)
        /\ paren_buf' = Some(stripped)
  /\ buf_from' = {i}
  /\ i' = i + 1
  /\ UNCHANGED <<lines, merged, merged_from, pc>>
  /\ UNCHANGED classifier_vars
  /\ UNCHANGED main_vars

\* line 45: the line is emitted with only its newline removed
MergeEmit ==
  /\ pc = "merge" /\ i <= Len(lines)
  /\ paren_buf = None
  /\ LET raw == rstrip_nl(lines[i])
     IN /\ ~OpensBuffer(strip(raw))
        /\ merged' = Append(merged, raw)
  /\ merged_from' = Append(merged_from, {i})
  /\ i' = i + 1
  /\ UNCHANGED <<lines, paren_buf, buf_from, pc>>
  /\ UNCHANGED classifier_vars
  /\ UNCHANGED main_vars

\* variant: an unterminated buffer is dropped at the end of the input
MergeReturn_DropsBuffer ==
  /\ pc = "merge" /\ i > Len(lines)
  /\ paren_buf' = None
  /\ buf_from' = {}
  /\ pc' = "classify"
  /\ UNCHANGED <<lines, i, merged, merged_from>>
  /\ UNCHANGED classifier_vars
  /\ UNCHANGED main_vars

\* lines 47-50: end of input, an active buffer is flushed
MergeReturn ==
  /\ pc = "merge" /\ i > Len(lines)
  /\ IF paren_buf # None
     THEN /\ merged' = Append(merged, paren_buf[1])
          /\ merged_from' = Append(merged_from, buf_from)
     ELSE UNCHANGED <<merged, merged_from>>
  /\ paren_buf' = None
  /\ buf_from' = {}
  /\ pc' = "classify"
  /\ UNCHANGED <<lines, i>>
  /\ UNCHANGED classifier_vars
  /\ UNCHANGED main_vars

(* ------------------------ format_script: classifier -------------------- *)

merge_vars == <<lines, i, paren_buf, merged, buf_from, merged_from>>

\* the loop of line 61 is at element j of merged
AtLine == pc = "classify" /\ j <= Len(merged)

\* s of line 66
CurLine == strip(merged[j])

\* variant: the bracket test comes first, a bracketed line is never taken as
\* a speaker line
HasColon_UnlessBracketed(s) ==
  /\ \E k \in 1..Len(s) : s[k] = FCOLON
  /\ ~(StartsWithOpen(s) \/ EndsWithClose(s))

HasColon(s) == \E k \in 1..Len(s) : s[k] = FCOLON

\* s.split(FCOLON, 1), both parts stripped (lines 72-74)
NamePart(s) == strip(SubSeq(s, 1, find(s, FCOLON) - 1))

TextPart(s) == strip(SubSeq(s, find(s, FCOLON) + 1, Len(s)))

\* variant: the keyword test is made on the annotated name
IsStageName_Annotated(s) == NamePart(s) \in STAGE_NAMES

\* line 77
IsStageName(s) == plain_text(NamePart(s)) \in STAGE_NAMES

\* lines 84-92: <<name_raw, stage_raw>> of a dialogue header
SplitNote(name_raw) ==
  IF (\E k \in 1..Len(name_raw) : name_raw[k] = FOPEN)
     /\ endswith(name_raw, <<FCLOSE>>)
  THEN LET idx == rfind(name_raw, FOPEN)
       IN <<strip(SubSeq(name_raw, 1, idx - 1)),
            Some(strip(SubSeq(name_raw, idx + 1, Len(name_raw) - 1)))>>
  ELSE IF (\E k \in 1..Len(name_raw) : name_raw[k] = HOPEN)
          /\ endswith(name_raw, <<HCLOSE>>)
  THEN LET idx == rfind(name_raw, HOPEN)
       IN <<strip(SubSeq(name_raw, 1, idx - 1)),
            Some(strip(SubSeq(name_raw, idx + 1, Len(name_raw) - 1)))>>
  ELSE <<name_raw, None>>

\* line 106
IsParenthetical(s) == StartsWithOpen(s) \/ EndsWithClose(s)

\* variant: the brackets are removed without trimming the inner text
StageContent_NoTrim(s) ==
  IF StartsWithOpen(s) /\ EndsWithClose(s)
  THEN SubSeq(s, 2, Len(s) - 1)
  ELSE IF StartsWithOpen(s)
  THEN SubSeq(s, 2, Len(s))
  ELSE IF EndsWithClose(s)
  THEN SubSeq(s, 1, Len(s) - 1)
  ELSE s

\* lines 109-117
StageContent(s) ==
  IF StartsWithOpen(s) /\ EndsWithClose(s)
  THEN strip(SubSeq(s, 2, Len(s) - 1))
  ELSE IF StartsWithOpen(s)
  THEN strip(SubSeq(s, 2, Len(s)))
  ELSE IF EndsWithClose(s)
  THEN strip(SubSeq(s, 1, Len(s) - 1))
  ELSE s

\* variant: a blank line is skipped without setting prev_blank
ClassifyBlank_KeepFlag ==
  /\ AtLine
  /\ CurLine = <<>>
  /\ j' = j + 1
  /\ UNCHANGED <<blocks, last_dialogue, prev_blank, plain, out, pc>>
  /\ UNCHANGED merge_vars
  /\ UNCHANGED main_vars

\* lines 62-64
ClassifyBlank ==
  /\ AtLine
  /\ CurLine = <<>>
  /\ prev_blank' = TRUE
  /\ j' = j + 1
  /\ UNCHANGED <<blocks, last_dialogue, plain, out, pc>>
  /\ UNCHANGED merge_vars
  /\ UNCHANGED main_vars

\* variant: a noise line counts as a blank line
ClassifyNoise_SetsBlank ==
  /\ AtLine
  /\ CurLine # <<>>
  /\ IsNoise(CurLine)
  /\ prev_blank' = TRUE
  /\ plain' = plain_text(CurLine)
  /\ j' = j + 1
  /\ UNCHANGED <<blocks, last_dialogue, out, pc>>
  /\ UNCHANGED merge_vars
  /\ UNCHANGED main_vars

\* variant: the noise test misses the "continue" and the line falls through
\* to the plain-line branch
ClassifyNoise_FallsThrough ==
  /\ AtLine
  /\ CurLine # <<>>
  /\ IsNoise(CurLine)
  /\ blocks' = Append(blocks, StageBlock(CurLine, j))
  /\ last_dialogue' = 0
  /\ prev_blank' = FALSE
  /\ plain' = plain_text(CurLine)
  /\ j' = j + 1
  /\ UNCHANGED <<out, pc>>
  /\ UNCHANGED merge_vars
  /\ UNCHANGED main_vars

\* lines 66-69
ClassifyNoise ==
  /\ AtLine
  /\ CurLine # <<>>
  /\ IsNoise(CurLine)
  /\ plain' = plain_text(CurLine)
  /\ j' = j + 1
  /\ UNCHANGED <<blocks, last_dialogue, prev_blank, out, pc>>
  /\ UNCHANGED merge_vars
  /\ UNCHANGED main_vars

\* variant: the keyword branch does not reset last_dialogue
ClassifyStageName_KeepsDialogue ==
  /\ AtLine
  /\ CurLine # <<>> /\ ~IsNoise(CurLine)
  /\ HasColon(CurLine) /\ IsStageName(CurLine)
  /\ LET stage_content ==
           strip(NamePart(CurLine) \o <<FCOLON>> \o TextPart(CurLine))
     IN blocks' = Append(blocks, StageBlock(stage_content, j))
  /\ prev_blank' = FALSE
  /\ plain' = plain_text(CurLine)
  /\ j' = j + 1
  /\ UNCHANGED <<last_dialogue, out, pc>>
  /\ UNCHANGED merge_vars
  /\ UNCHANGED main_vars

\* lines 71-82
ClassifyStageName ==
  /\ AtLine
  /\ CurLine # <<>> /\ ~IsNoise(CurLine)
  /\ HasColon(CurLine) /\ IsStageName(CurLine)
  /\ LET stage_content ==
           strip(NamePart(CurLine) \o <<FCOLON>> \o TextPart(CurLine))
     IN blocks' = Append(blocks, StageBlock(stage_content, j))
  /\ last_dialogue' = 0
  /\ prev_blank' = FALSE
  /\ plain' = plain_text(CurLine)
  /\ j' = j + 1
  /\ UNCHANGED <<out, pc>>
  /\ UNCHANGED merge_vars
  /\ UNCHANGED main_vars

\* lines 71-76, 84-103
ClassifyDialogue ==
  /\ AtLine
  /\ CurLine # <<>> /\ ~IsNoise(CurLine)
  /\ HasColon(CurLine) /\ ~IsStageName(CurLine)
  /\ LET hdr == SplitNote(NamePart(CurLine))
     IN blocks' = Append(blocks,
                    DialogueBlock(hdr[1], hdr[2], TextPart(CurLine), j))
  /\ last_dialogue' = Len(blocks) + 1
  /\ prev_blank' = FALSE
  /\ plain' = plain_text(CurLine)
  /\ j' = j + 1
  /\ UNCHANGED <<out, pc>>
  /\ UNCHANGED merge_vars
  /\ UNCHANGED main_vars

\* variant: the parenthetical branch does not reset last_dialogue
ClassifyParenthetical_KeepsDialogue ==
  /\ AtLine
  /\ CurLine # <<>> /\ ~IsNoise(CurLine)
  /\ ~HasColon(CurLine)
  /\ IsParenthetical(CurLine)
  /\ blocks' = Append(blocks, StageBlock(StageContent(CurLine), j))
  /\ prev_blank' = FALSE
  /\ plain' = plain_text(CurLine)
  /\ j' = j + 1
  /\ UNCHANGED <<last_dialogue, out, pc>>
  /\ UNCHANGED merge_vars
  /\ UNCHANGED main_vars

\* lines 106-121
ClassifyParenthetical ==
  /\ AtLine
  /\ CurLine # <<>> /\ ~IsNoise(CurLine)
  /\ ~HasColon(CurLine)
  /\ IsParenthetical(CurLine)
  /\ blocks' = Append(blocks, StageBlock(StageContent(CurLine), j))
  /\ last_dialogue' = 0
  /\ prev_blank' = FALSE
  /\ plain' = plain_text(CurLine)
  /\ j' = j + 1
  /\ UNCHANGED <<out, pc>>
  /\ UNCHANGED merge_vars
  /\ UNCHANGED main_vars

\* variant: the continuation replaces the lines of the block
ClassifyContinuation_Overwrites ==
  /\ AtLine
  /\ CurLine # <<>> /\ ~IsNoise(CurLine)
  /\ ~HasColon(CurLine) /\ ~IsParenthetical(CurLine)
  /\ last_dialogue # 0 /\ ~prev_blank
  /\ blocks' = [blocks EXCEPT
                  ![last_dialogue].lines = <<CurLine>>,
                  ![last_dialogue].src = @ \cup {j}]
  /\ prev_blank' = FALSE
  /\ plain' = plain_text(CurLine)
  /\ j' = j + 1
  /\ UNCHANGED <<last_dialogue, out, pc>>
  /\ UNCHANGED merge_vars
  /\ UNCHANGED main_vars

\* lines 123-124, 128
ClassifyContinuation ==
  /\ AtLine
  /\ CurLine # <<>> /\ ~IsNoise(CurLine)
  /\ ~HasColon(CurLine) /\ ~IsParenthetical(CurLine)
  /\ last_dialogue # 0 /\ ~prev_blank
  /\ blocks' = [blocks EXCEPT
                  ![last_dialogue].lines = Append(@, CurLine),
                  ![last_dialogue].src = @ \cup {j}]
  /\ prev_blank' = FALSE
  /\ plain' = plain_text(CurLine)
  /\ j' = j + 1
  /\ UNCHANGED <<last_dialogue, out, pc>>
  /\ UNCHANGED merge_vars
  /\ UNCHANGED main_vars

\* lines 125-128
ClassifyPlainStage ==
  /\ AtLine
  /\ CurLine # <<>> /\ ~IsNoise(CurLine)
  /\ ~HasColon(CurLine) /\ ~IsParenthetical(CurLine)
  /\ ~(last_dialogue # 0 /\ ~prev_blank)
  /\ blocks' = Append(blocks, StageBlock(CurLine, j))
  /\ last_dialogue' = 0
  /\ prev_blank' = FALSE
  /\ plain' = plain_text(CurLine)
  /\ j' = j + 1
  /\ UNCHANGED <<out, pc>>
  /\ UNCHANGED merge_vars
  /\ UNCHANGED main_vars

(* ------------------------ format_script: serializer -------------------- *)

\* variant: the note line is written whenever a note was parsed ("is not
\* None" instead of truthiness)
BlockLines_NoteNotNone(b) ==
  IF b.type = "stage"
  THEN << <<"\\stage", "{">> \o b.text \o <<"}">>, <<>> >>
  ELSE << <<"\\charname", "{">> \o b.char \o <<"}">> >>
       \o (IF b.stage # None
           THEN << <<"\\stage", "{">> \o b.stage[1] \o <<"}">> >>
           ELSE <<>>)
       \o << <<"\\begin", "{", "dialogue", "}">> >>
       \o b.lines
       \o << <<"\\end", "{", "dialogue", "}">>, <<>> >>

\* the out_lines entries of one block (lines 132-143)
BlockLines(b) ==
  IF b.type = "stage"
  THEN << <<"\\stage", "{">> \o b.text \o <<"}">>, <<>> >>
  ELSE << <<"\\charname", "{">> \o b.char \o <<"}">> >>
       \o (IF b.stage # None /\ b.stage[1] # <<>>
           THEN << <<"\\stage", "{">> \o b.stage[1] \o <<"}">> >>
           ELSE <<>>)
       \o << <<"\\begin", "{", "dialogue", "}">> >>
       \o b.lines
       \o << <<"\\end", "{", "dialogue", "}">>, <<>> >>

RECURSIVE OutLines(_)
OutLines(bs) ==
  IF bs = <<>> THEN <<>> ELSE BlockLines(Head(bs)) \o OutLines(Tail(bs))

\* "\n".join(ls)
RECURSIVE Join(_)
Join(ls) ==
  IF ls = <<>> THEN <<>>
  ELSE IF Len(ls) = 1 THEN ls[1]
  ELSE ls[1] \o <<NL>> \o Join(Tail(ls))

\* variant: the joined text is not stripped before the newline is added
Render_NoStrip(bs) == Join(OutLines(bs)) \o <<NL>>

\* line 145
Render(bs) == rstrip(Join(OutLines(bs))) \o <<NL>>

\* lines 130-145
Serialize ==
  /\ pc = "classify" /\ j > Len(merged)
  /\ out' = Render(blocks)
  /\ pc' = "done"
  /\ UNCHANGED <<j, blocks, last_dialogue, prev_blank, plain>>
  /\ UNCHANGED merge_vars
  /\ UNCHANGED main_vars

(* --------------------------------- main -------------------------------- *)

\* lines 149-151: wrong argument count
MainUsage ==
  /\ pc = "main"
  /\ argv_len # 3
  /\ usage' = TRUE
  /\ rc' = 2
  /\ pc' = "exit"
  /\ UNCHANGED <<argv_len, reads, writes>>
  /\ UNCHANGED merge_vars
  /\ UNCHANGED classifier_vars

\* variant: the argument test is "fewer than three", so extra arguments
\* are accepted
MainRead_ExtraArgs ==
  /\ pc = "main"
  /\ argv_len >= 3
  /\ reads' = reads + 1
  /\ pc' = "merge"
  /\ UNCHANGED <<argv_len, rc, writes, usage>>
  /\ UNCHANGED merge_vars
  /\ UNCHANGED classifier_vars

\* lines 153-156: the input file is read and format_script is entered
MainRead ==
  /\ pc = "main"
  /\ argv_len = 3
  /\ reads' = reads + 1
  /\ pc' = "merge"
  /\ UNCHANGED <<argv_len, rc, writes, usage>>
  /\ UNCHANGED merge_vars
  /\ UNCHANGED classifier_vars

\* line 155: read_text raises (missing file, permission, encoding); nothing
\* catches it and the interpreter exits with status 1
MainReadFails ==
  /\ pc = "main"
  /\ argv_len = 3
  /\ rc' = 1
  /\ pc' = "exit"
  /\ UNCHANGED <<argv_len, reads, writes, usage>>
  /\ UNCHANGED merge_vars
  /\ UNCHANGED classifier_vars

\* lines 156-157: the result of format_script is written, main returns 0
MainWrite ==
  /\ pc = "done"
  /\ writes' = writes + 1
  /\ rc' = 0
  /\ pc' = "exit"
  /\ UNCHANGED <<argv_len, reads, usage>>
  /\ UNCHANGED merge_vars
  /\ UNCHANGED classifier_vars

\* line 156: write_text raises; nothing catches it
MainWriteFails ==
  /\ pc = "done"
  /\ rc' = 1
  /\ pc' = "exit"
  /\ UNCHANGED <<argv_len, reads, writes, usage>>
  /\ UNCHANGED merge_vars
  /\ UNCHANGED classifier_vars

(* ---------------------------- specifications --------------------------- *)

Next ==
  \/ MainUsage
  \/ MainRead
  \/ MainReadFails
  \/ MergeBuffered
  \/ MergeOpen
  \/ MergeEmit
  \/ MergeReturn
  \/ ClassifyBlank
  \/ ClassifyNoise
  \/ ClassifyStageName
  \/ ClassifyDialogue
  \/ ClassifyParenthetical
  \/ ClassifyContinuation
  \/ ClassifyPlainStage
  \/ Serialize
  \/ MainWrite
  \/ MainWriteFails

Spec == Init /\ [][Next]_vars

SpecWide == InitWide /\ [][Next]_vars

(* ------------------------------ properties ----------------------------- *)

Min(S) == CHOOSE x \in S : \A y \in S : x <= y

Max(S) == CHOOSE x \in S : \A y \in S : y <= x

IsBlankLine(l) == strip(l) = <<>>

IsNoiseLine(l) == ~IsBlankLine(l) /\ IsNoise(strip(l))

IsContentLine(l) == ~IsBlankLine(l) /\ ~IsNoise(strip(l))

\* a content line that is neither a speaker line nor a parenthetical
IsPlainLine(l) ==
  /\ IsContentLine(l)
  /\ ~HasColon(strip(l))
  /\ ~IsParenthetical(strip(l))

\* a content line that opens a dialogue block
IsHeaderLine(l) ==
  /\ IsContentLine(l)
  /\ HasColon(strip(l))
  /\ plain_text(NamePart(strip(l))) \notin STAGE_NAMES

\* the step appends exactly one block and leaves the earlier ones alone
OneNewBlock ==
  /\ Len(blocks') = Len(blocks) + 1
  /\ SubSeq(blocks', 1, Len(blocks)) = blocks

\* merged[m] is the first content line after a blank line: a blank line lies
\* before it and only blank or noise lines lie between the two
FollowsBlank(m) ==
  \E k \in 1..(m - 1) :
    /\ IsBlankLine(merged[k])
    /\ \A h \in (k + 1)..(m - 1) : ~IsContentLine(merged[h])

\* C1: the first content line after a blank line always creates a new block
\* and is never appended to an existing dialogue block, also when noise lines
\* lie between the blank line and that line.
C1_BlankEndsContinuation ==
  [][(AtLine /\ IsContentLine(merged[j]) /\ FollowsBlank(j)) => OneNewBlock]_vars

\* a header, a blank line, a noise line and a plain line have been classified
\* and the plain line became a stage block of its own
C1_Witness ==
  /\ pc = "classify" /\ j >= 5
  /\ IsHeaderLine(merged[j - 4])
  /\ IsBlankLine(merged[j - 3])
  /\ IsNoiseLine(merged[j - 2])
  /\ IsPlainLine(merged[j - 1])
  /\ Len(blocks) >= 2
  /\ blocks[Len(blocks) - 1].type = "dialogue"
  /\ Len(blocks[Len(blocks) - 1].lines) = 1
  /\ blocks[Len(blocks)].type = "stage"
  /\ blocks[Len(blocks)].src = {j - 1}

\* the raw input lines whose text went into block b
RawSources(b) == UNION { merged_from[m] : m \in b.src }

\* C2 as stated: no raw noise line contributes text to any block, wherever it
\* lies in the input, multi-line parentheticals included.
C2_Original ==
  \A r \in 1..Len(lines) :
    IsNoiseLine(lines[r]) =>
      \A k \in 1..Len(blocks) : r \notin RawSources(blocks[k])

\* raw line r was emitted by the merger as a merged line of its own
EmittedAlone(r) == \E m \in 1..Len(merged) : merged_from[m] = {r}

\* C2 amended: a raw noise line that the merger emits as a line of its own
\* produces no block and contributes no text to any block.
C2_NoiseOutsideParenthetical ==
  \A r \in 1..Len(lines) :
    (IsNoiseLine(lines[r]) /\ EmittedAlone(r)) =>
      \A k \in 1..Len(blocks) : r \notin RawSources(blocks[k])

\* a noise line between a header and a plain line has been classified and
\* none of the blocks comes from it
C2_Witness ==
  /\ pc = "done"
  /\ Len(blocks) >= 1
  /\ \E r \in 2..(Len(lines) - 1) :
       /\ IsNoiseLine(lines[r]) /\ EmittedAlone(r)
       /\ IsHeaderLine(lines[r - 1])
       /\ IsPlainLine(lines[r + 1])

\* merged[m] is a plain line that follows the header merged[h] with only
\* noise lines in between
NoiseOnlySince(h, m) ==
  /\ h < m
  /\ IsHeaderLine(merged[h])
  /\ \A n \in (h + 1)..(m - 1) : IsNoiseLine(merged[n])

\* C10: classifying a noise line changes none of blocks, last_dialogue and
\* prev_blank, so a plain line after a header with only noise lines in
\* between is appended to that header's dialogue block.
C10_NoiseIsTransparent ==
  [][/\ (AtLine /\ IsNoiseLine(merged[j]))
          => UNCHANGED <<blocks, last_dialogue, prev_blank>>
     /\ (AtLine /\ IsPlainLine(merged[j])
           /\ \E h \in 1..(j - 1) : NoiseOnlySince(h, j))
          => /\ Len(blocks') = Len(blocks)
             /\ Len(blocks) >= 1
             /\ SubSeq(blocks', 1, Len(blocks) - 1)
                  = SubSeq(blocks, 1, Len(blocks) - 1)
             /\ blocks'[Len(blocks)].lines
                  = Append(blocks[Len(blocks)].lines, strip(merged[j]))
             /\ \E h \in 1..(j - 1) :
                  NoiseOnlySince(h, j) /\ Min(blocks[Len(blocks)].src) = h]_vars

\* header, noise, noise, plain: the plain line is the second dialogue line
C10_Witness ==
  /\ pc = "classify" /\ j >= 5
  /\ IsHeaderLine(merged[j - 4])
  /\ IsNoiseLine(merged[j - 3])
  /\ IsNoiseLine(merged[j - 2])
  /\ IsPlainLine(merged[j - 1])
  /\ Len(blocks) = 1
  /\ blocks[1].type = "dialogue"
  /\ blocks[1].lines = <<TextPart(strip(merged[j - 4])), strip(merged[j - 1])>>

\* every opening bracket of line l has a closing bracket later on the line
ClosedOnLine(l) ==
  \A k \in 1..Len(l) :
    l[k] \in {FOPEN, HOPEN} =>
      \E m \in (k + 1)..Len(l) : l[m] \in {FCLOSE, HCLOSE}

\* C3 as stated: when every opening bracket is closed later on its own line,
\* the merger returns as many lines as it was given.
C3_Original ==
  (pc \in {"classify", "done"}
     /\ \A r \in 1..Len(lines) : ClosedOnLine(lines[r]))
    => Len(merged) = Len(lines)

\* C4: a content line whose name part projects to a stage keyword appends
\* exactly one stage block with the text name part, full-width colon, text
\* part (the name part still annotated) and clears last_dialogue.
C4_StageKeywordLine ==
  [][(/\ AtLine /\ IsContentLine(merged[j])
      /\ HasColon(CurLine)
      /\ plain_text(NamePart(CurLine)) \in STAGE_NAMES)
       => /\ OneNewBlock
          /\ blocks'[Len(blocks')].type = "stage"
          /\ blocks'[Len(blocks')].text
               = NamePart(CurLine) \o <<FCOLON>> \o TextPart(CurLine)
          /\ last_dialogue' = 0]_vars

\* an annotated keyword line has been classified right after a header
C4_Witness ==
  /\ pc = "classify" /\ j = 3
  /\ IsHeaderLine(merged[1])
  /\ RUBY \in { merged[2][k] : k \in 1..Len(merged[2]) }
  /\ plain_text(NamePart(strip(merged[2]))) \in STAGE_NAMES
  /\ Len(blocks) = 2
  /\ blocks[1].type = "dialogue"
  /\ blocks[2].type = "stage"
  /\ last_dialogue = 0

\* the header line of dialogue block b
HeaderOf(b) == strip(merged[Min(b.src)])

HasChar(s, c) == \E k \in 1..Len(s) : s[k] = c

\* the name part carries a bracketed note
HasNote(name) ==
  \/ HasChar(name, FOPEN) /\ endswith(name, <<FCLOSE>>)
  \/ HasChar(name, HOPEN) /\ endswith(name, <<HCLOSE>>)

\* position of the opening bracket of the note
NoteOpen(name) ==
  IF HasChar(name, FOPEN) /\ endswith(name, <<FCLOSE>>)
  THEN rfind(name, FOPEN)
  ELSE rfind(name, HOPEN)

BeforeNote(name) == SubSeq(name, 1, NoteOpen(name) - 1)

InsideNote(name) == SubSeq(name, NoteOpen(name) + 1, Len(name) - 1)

\* the serialized form of a dialogue block, with or without a note line
DialogueTemplate(char, note, ls) ==
  << <<"\\charname", "{">> \o char \o <<"}">> >>
  \o note
  \o << <<"\\begin", "{", "dialogue", "}">> >>
  \o ls
  \o << <<"\\end", "{", "dialogue", "}">>, <<>> >>

NoteLine(t) == <<"\\stage", "{">> \o t \o <<"}">>

\* C5 as stated: the character is the name text before the bracket, the note
\* is the enclosed text, and the block is always serialized with one \stage
\* line carrying the note.
C5_Original ==
  \A k \in 1..Len(blocks) :
    (blocks[k].type = "dialogue" /\ HasNote(NamePart(HeaderOf(blocks[k]))))
      => LET name == NamePart(HeaderOf(blocks[k]))
         IN /\ blocks[k].char = BeforeNote(name)
            /\ blocks[k].stage = Some(InsideNote(name))
            /\ BlockLines(blocks[k])
                 = DialogueTemplate(BeforeNote(name),
                                    << NoteLine(InsideNote(name)) >>,
                                    blocks[k].lines)

\* C5 amended: the character and the note are the whitespace-trimmed texts
\* before and inside the bracket, and the \stage line is written exactly when
\* the trimmed note is not empty.
C5_HeaderNote ==
  \A k \in 1..Len(blocks) :
    (blocks[k].type = "dialogue" /\ HasNote(NamePart(HeaderOf(blocks[k]))))
      => LET name == NamePart(HeaderOf(blocks[k]))
             char == strip(BeforeNote(name))
             note == strip(InsideNote(name))
         IN /\ blocks[k].char = char
            /\ blocks[k].stage = Some(note)
            /\ BlockLines(blocks[k])
                 = DialogueTemplate(char,
                     IF note = <<>> THEN <<>> ELSE << NoteLine(note) >>,
                     blocks[k].lines)

\* a header with spaces around the name and inside the note, followed by a
\* continuation line, has been serialized
C5_Witness ==
  /\ pc = "done"
  /\ Len(blocks) = 1
  /\ blocks[1].type = "dialogue"
  /\ HasNote(NamePart(HeaderOf(blocks[1])))
  /\ BeforeNote(NamePart(HeaderOf(blocks[1]))) # blocks[1].char
  /\ InsideNote(NamePart(HeaderOf(blocks[1]))) # blocks[1].stage[1]
  /\ blocks[1].stage[1] # <<>>
  /\ Len(blocks[1].lines) = 2

\* C6: every dialogue block has at least one line, and its first line is the
\* trimmed text after the first full-width colon of its header line.
C6_LinesSeeded ==
  \A k \in 1..Len(blocks) :
    blocks[k].type = "dialogue" =>
      /\ Len(blocks[k].lines) >= 1
      /\ HasColon(HeaderOf(blocks[k]))
      /\ blocks[k].lines[1] = TextPart(HeaderOf(blocks[k]))

\* a header with nothing after the colon got a continuation line
C6_Witness ==
  /\ pc = "done"
  /\ Len(blocks) = 1
  /\ blocks[1].type = "dialogue"
  /\ Len(blocks[1].lines) = 2
  /\ blocks[1].lines[1] = <<>>
  /\ TextPart(HeaderOf(blocks[1])) = <<>>

\* line s with its first half-width colon written as a full-width colon
AsFullWidth(s) ==
  [k \in 1..Len(s) |-> IF k = find(s, HCOLON) THEN FCOLON ELSE s[k]]

\* the block a speaker line s at position m gives (lines 72-101)
SpeakerBlock(s, m) ==
  IF plain_text(NamePart(s)) \in STAGE_NAMES
  THEN StageBlock(NamePart(s) \o <<FCOLON>> \o TextPart(s), m)
  ELSE DialogueBlock(SplitNote(NamePart(s))[1], SplitNote(NamePart(s))[2],
                     TextPart(s), m)

\* C7 as stated: a content line whose only colon is half-width is classified
\* as the same line with a full-width colon would be.
C7_Original ==
  [][(/\ AtLine /\ IsContentLine(merged[j])
      /\ ~HasColon(CurLine) /\ HasChar(CurLine, HCOLON))
       => /\ OneNewBlock
          /\ blocks'[Len(blocks')] = SpeakerBlock(AsFullWidth(CurLine), j)]_vars

\* the stripped raw lines lo..hi, concatenated
RECURSIVE ConcatStripped(_, _)
ConcatStripped(lo, hi) ==
  IF lo > hi THEN <<>>
  ELSE strip(lines[lo]) \o ConcatStripped(lo + 1, hi)

\* merged[m] was built in the buffer: its first raw line starts with an
\* opening bracket and does not end with a closing bracket
FromBuffer(m) == OpensBuffer(strip(lines[Min(merged_from[m])]))

\* nothing is emitted while the buffer is filling: the raw lines from the
\* opening line to the first line that makes the accumulated text end with a
\* closing bracket (or to the end of the input) all go into one merged line,
\* which is the concatenation of their stripped texts
BufferMergesAll ==
  /\ \A m \in 1..Len(merged) :
       FromBuffer(m) =>
         LET lo == Min(merged_from[m])
             hi == Max(merged_from[m])
         IN /\ merged_from[m] = lo..hi
            /\ merged[m] = ConcatStripped(lo, hi)
            /\ \A r \in lo..(hi - 1) : ~EndsWithClose(ConcatStripped(lo, r))
            /\ EndsWithClose(merged[m]) \/ hi = Len(lines)
  /\ \A m, n \in 1..Len(merged) :
       m # n => merged_from[m] \cap merged_from[n] = {}
  /\ paren_buf # None =>
       /\ buf_from = Min(buf_from)..(i - 1)
       /\ paren_buf[1] = ConcatStripped(Min(buf_from), i - 1)
       /\ \A m \in 1..Len(merged) : merged_from[m] \cap buf_from = {}

\* merged[m] is a closed multi-line parenthetical without colon or noise
ClosedParenthetical(m) ==
  /\ FromBuffer(m)
  /\ EndsWithClose(merged[m])
  /\ ~HasColon(merged[m])
  /\ ~IsNoise(merged[m])

BlocksFrom(m) == { k \in 1..Len(blocks) : m \in blocks[k].src }

\* C8 as stated: the buffer swallows every line up to the closing one, the
\* merged line is the concatenation of the stripped lines, and its stage block
\* holds the merged text without the outer brackets.
C8_Original ==
  /\ BufferMergesAll
  /\ \A m \in 1..Len(merged) :
       (pc # "merge" /\ m < j /\ ClosedParenthetical(m)) =>
         /\ Cardinality(BlocksFrom(m)) = 1
         /\ \A k \in BlocksFrom(m) :
              /\ blocks[k].type = "stage"
              /\ blocks[k].src = {m}
              /\ blocks[k].text = SubSeq(merged[m], 2, Len(merged[m]) - 1)

\* C8 amended: as stated, but the stage block holds the merged text without
\* its outer brackets and with surrounding whitespace trimmed.
C8_MergedParenthetical ==
  /\ BufferMergesAll
  /\ \A m \in 1..Len(merged) :
       (pc # "merge" /\ m < j /\ ClosedParenthetical(m)) =>
         /\ Cardinality(BlocksFrom(m)) = 1
         /\ \A k \in BlocksFrom(m) :
              /\ blocks[k].type = "stage"
              /\ blocks[k].src = {m}
              /\ blocks[k].text
                   = strip(SubSeq(merged[m], 2, Len(merged[m]) - 1))

\* an opening line, a blank line, a noise line and a closing line were merged
\* into one line and classified as one stage block
C8_Witness ==
  /\ pc = "done"
  /\ Len(lines) = 4
  /\ IsBlankLine(lines[2])
  /\ IsNoiseLine(lines[3])
  /\ Len(merged) = 1
  /\ ClosedParenthetical(1)
  /\ merged_from[1] = 1..4
  /\ Len(blocks) = 1
  /\ blocks[1].text # SubSeq(merged[1], 2, Len(merged[1]) - 1)

\* the text of out_lines entries ls, each ended by a newline
RECURSIVE LinesText(_)
LinesText(ls) ==
  IF ls = <<>> THEN <<>> ELSE Head(ls) \o <<NL>> \o LinesText(Tail(ls))

\* the template of one block without the blank line that follows it
TemplateText(b) ==
  IF b.type = "stage"
  THEN <<"\\stage", "{">> \o b.text \o <<"}", NL>>
  ELSE LinesText(SubSeq(BlockLines(b), 1, Len(BlockLines(b)) - 1))

\* the templates in block order, one blank line between two blocks
RECURSIVE TemplatesText(_)
TemplatesText(bs) ==
  IF bs = <<>> THEN <<>>
  ELSE IF Len(bs) = 1 THEN TemplateText(bs[1])
  ELSE TemplateText(bs[1]) \o <<NL>> \o TemplatesText(Tail(bs))

\* C9: the returned text is the templates of the blocks in block order, a
\* blank line after each block (the one after the last block falls to the
\* trailing-whitespace strip), and it ends with exactly one newline that no
\* other whitespace precedes; with no blocks it is that newline alone.
C9_RenderedText ==
  pc = "done" =>
    /\ out = IF blocks = <<>> THEN <<NL>> ELSE TemplatesText(blocks)
    /\ out[Len(out)] = NL
    /\ Len(out) >= 2 => out[Len(out) - 1] \notin Whitespace

\* two stage blocks around a dialogue block have been rendered
C9_Witness ==
  /\ pc = "done"
  /\ Len(blocks) = 3
  /\ blocks[1].type = "stage"
  /\ blocks[2].type = "dialogue"
  /\ blocks[3].type = "stage"
  /\ out = <<"\\stage", "{">> \o blocks[1].text \o <<"}", NL, NL>>
           \o TemplateText(blocks[2]) \o <<NL>>
           \o <<"\\stage", "{">> \o blocks[3].text \o <<"}", NL>>

\* position of the "}" that closes a group, scanning from p at nesting depth
\* d, 0 if the group is not closed
RECURSIVE CloseFrom(_, _, _)
CloseFrom(s, p, d) ==
  IF p > Len(s) THEN 0
  ELSE IF s[p] = "{" THEN CloseFrom(s, p + 1, d + 1)
  ELSE IF s[p] = "}" THEN (IF d = 1 THEN p ELSE CloseFrom(s, p + 1, d - 1))
  ELSE CloseFrom(s, p + 1, d)

\* end of the brace group that opens at k, 0 if no closed group opens there
GroupEnd(s, k) ==
  IF k >= 1 /\ k <= Len(s) /\ s[k] = "{" THEN CloseFrom(s, k + 1, 1) ELSE 0

\* an annotation span starts at k: \ruby, a closed group, a closed group
SpanAt(s, k) ==
  /\ s[k] = RUBY
  /\ GroupEnd(s, k + 1) # 0
  /\ GroupEnd(s, GroupEnd(s, k + 1) + 1) # 0

HasSpan(s) == \E k \in 1..Len(s) : SpanAt(s, k)

\* every \ruby of s starts an annotation span (nested spans allowed)
BalancedSpans(s) == \A k \in 1..Len(s) : s[k] = RUBY => SpanAt(s, k)

\* C11 as stated: the projection of a line with balanced annotation spans,
\* nested ones included, has no annotation span left, and a line without
\* spans is its own projection.
C11_Original ==
  (/\ pc = "classify" /\ j > 1
   /\ ~IsBlankLine(merged[j - 1])
   /\ BalancedSpans(strip(merged[j - 1])))
    => /\ ~HasSpan(plain)
       /\ ~HasSpan(strip(merged[j - 1])) => plain = strip(merged[j - 1])

\* C12: with an argument count other than two, main reports usage and exits
\* with status 2 without reading or writing a file; with two arguments it
\* exits with status 0 exactly when the input was read and the output was
\* written once.
C12_MainExit ==
  /\ argv_len # 3 =>
       /\ pc \in {"main", "exit"}
       /\ reads = 0 /\ writes = 0
       /\ pc = "exit" => (rc = 2 /\ usage)
  /\ argv_len = 3 =>
       /\ ~usage
       /\ rc \in {-1, 0, 1}
       /\ rc = 0 <=> writes = 1
       /\ writes = 1 => (reads = 1 /\ pc = "exit")
       /\ writes <= 1 /\ reads <= 1

\* main has returned 2 for three positional arguments
C12_Witness ==
  /\ pc = "exit"
  /\ argv_len = 4
  /\ rc = 2
  /\ usage
  /\ reads = 0 /\ writes = 0

\* C13: a content line with a full-width colon always appends the block of a
\* speaker line, split at the first full-width colon (a dialogue block, or a
\* stage block for a stage keyword), also when it starts with an opening
\* bracket or ends with a closing bracket; a noise line with a colon appends
\* nothing.
C13_SpeakerBeforeParenthetical ==
  [][/\ (AtLine /\ IsContentLine(merged[j]) /\ HasChar(CurLine, FCOLON))
          => /\ OneNewBlock
             /\ blocks'[Len(blocks')] = SpeakerBlock(CurLine, j)
     /\ (AtLine /\ IsNoiseLine(merged[j]) /\ HasChar(CurLine, FCOLON))
          => blocks' = blocks]_vars

\* a line that starts with an opening bracket and holds a colon became a
\* dialogue block whose character keeps the bracket
C13_Witness ==
  /\ pc = "classify" /\ j > 1
  /\ StartsWithOpen(strip(merged[j - 1]))
  /\ HasChar(merged[j - 1], FCOLON)
  /\ Len(blocks) >= 1
  /\ blocks[Len(blocks)].type = "dialogue"
  /\ blocks[Len(blocks)].src = {j - 1}
  /\ StartsWithOpen(blocks[Len(blocks)].char)

\* last_dialogue, when set, is the last block and a dialogue block
LastDialogueIsLast ==
  last_dialogue # 0 =>
    /\ last_dialogue = Len(blocks)
    /\ blocks[last_dialogue].type = "dialogue"

\* blocks only grows at its end; a block changes only while it is the last
\* one, and then only by one more entry in its lines
BlocksAppendOnly ==
  /\ Len(blocks') >= Len(blocks)
  /\ Len(blocks') <= Len(blocks) + 1
  /\ \A k \in 1..Len(blocks) :
       \/ blocks'[k] = blocks[k]
       \/ /\ k = Len(blocks) /\ Len(blocks') = Len(blocks)
          /\ k = last_dialogue
          /\ blocks[k].type = "dialogue"
          /\ blocks'[k] = [blocks[k] EXCEPT
                             !.lines = Append(@, strip(merged[j])),
                             !.src = @ \cup {j}]

\* C14: last_dialogue, when set, is the last element of blocks and a dialogue
\* block; blocks are never removed or reordered, and a block changes only by
\* a continuation line appended while it is the last block.
C14_AppendOnly == []LastDialogueIsLast /\ [][BlocksAppendOnly]_vars

\* a continuation line went into the second of two blocks
C14_Witness ==
  /\ pc = "classify"
  /\ Len(blocks) = 2
  /\ blocks[1].type = "stage"
  /\ last_dialogue = 2
  /\ Len(blocks[2].lines) = 2

\* merged[h] was turned into a stage block
MadeStageBlock(h) ==
  \E k \in 1..Len(blocks) : blocks[k].type = "stage" /\ blocks[k].src = {h}

\* C15: a step that appends a stage block clears last_dialogue, and a plain
\* line whose last content line before it became a stage block appends a new
\* stage block, with or without blank or noise lines in between.
C15_StageBlockClosesDialogue ==
  [][/\ (AtLine /\ Len(blocks') = Len(blocks) + 1
           /\ blocks'[Len(blocks')].type = "stage")
          => last_dialogue' = 0
     /\ (AtLine /\ IsPlainLine(merged[j])
           /\ \E h \in 1..(j - 1) :
                /\ MadeStageBlock(h)
                /\ \A n \in (h + 1)..(j - 1) : ~IsContentLine(merged[n]))
          => /\ OneNewBlock
             /\ blocks'[Len(blocks')].type = "stage"
             /\ blocks'[Len(blocks')].text = strip(merged[j])
             /\ blocks'[Len(blocks')].src = {j}]_vars

\* header, parenthetical, plain line with no blank line: the plain line is a
\* stage block, the dialogue block keeps its single line
C15_Witness ==
  /\ pc = "classify" /\ j = 4
  /\ IsHeaderLine(merged[1])
  /\ IsParenthetical(strip(merged[2])) /\ ~HasChar(merged[2], FCOLON)
  /\ IsPlainLine(merged[3])
  /\ Len(blocks) = 3
  /\ blocks[1].type = "dialogue" /\ Len(blocks[1].lines) = 1
  /\ blocks[2].type = "stage"
  /\ blocks[3].type = "stage" /\ blocks[3].text = strip(merged[3])

\* the stripped merged lines 1..n, concatenated
RECURSIVE ConcatMerged(_)
ConcatMerged(n) ==
  IF n = 0 THEN <<>> ELSE ConcatMerged(n - 1) \o strip(merged[n])

\* the merger returned no more lines than it was given, and the stripped
\* output lines concatenate to the text of the stripped input lines
MergeResult ==
  pc \in {"classify", "done"} =>
    /\ Len(merged) <= Len(lines)
    /\ ConcatMerged(Len(merged)) = ConcatStripped(1, Len(lines))

\* inside the merger a step is always possible, without any error
MergeCanStep ==
  pc = "merge" =>
    /\ i <= Len(lines) + 1
    /\ ENABLED (MergeBuffered \/ MergeOpen \/ MergeEmit \/ MergeReturn)

\* every step of the merger consumes one input line or returns
MergeAdvances ==
  pc = "merge" =>
    \/ pc' = "merge" /\ i <= Len(lines) /\ i' = i + 1
    \/ pc' = "classify" /\ i = Len(lines) + 1

\* C16: the merger terminates (each step consumes one line of the finite
\* input or returns, and a step is always possible), returns no more lines
\* than it was given, and the stripped output lines concatenate to the same
\* text as the stripped input lines, also when the buffer is flushed at the
\* end of the input.
C16_MergeKeepsText ==
  /\ []MergeResult
  /\ []MergeCanStep
  /\ [][MergeAdvances]_vars

\* the input ended with the buffer active and the buffer became the last line
C16_Witness ==
  /\ pc = "classify"
  /\ Len(lines) = 2
  /\ Len(merged) = 1
  /\ merged_from[1] = {1, 2}
  /\ ~EndsWithClose(merged[1])
  /\ strip(lines[2]) # lines[2]

\* the entries of all dialogue blocks' lines
RECURSIVE DialogueEntries(_)
DialogueEntries(bs) ==
  IF bs = <<>> THEN 0
  ELSE (IF Head(bs).type = "dialogue" THEN Len(Head(bs).lines) ELSE 0)
       + DialogueEntries(Tail(bs))

StageBlocks == { k \in 1..Len(blocks) : blocks[k].type = "stage" }

\* the content lines among the merged lines classified so far
ClassifiedContent == { m \in 1..(j - 1) : IsContentLine(merged[m]) }

\* C17: stage blocks plus dialogue line entries count the content lines
\* classified so far; blank and noise lines add nothing.
C17_OneEntryPerContentLine ==
  Cardinality(StageBlocks) + DialogueEntries(blocks)
    = Cardinality(ClassifiedContent)

\* header, continuation, noise and blank line classified: two entries
C17_Witness ==
  /\ pc = "done"
  /\ Len(merged) = 4
  /\ \E m \in 1..4 : IsBlankLine(merged[m])
  /\ \E m \in 1..4 : IsNoiseLine(merged[m])
  /\ Len(blocks) = 1
  /\ blocks[1].type = "dialogue"
  /\ Len(blocks[1].lines) = 2

====
